---- MODULE Spec2Model ----
(***************************************************************************)
(* Model of the sigtube media proxy (src/index.js): the byte-range         *)
(* streaming responder GET /api/files/stream over the remote WebDAV store  *)
(* (src/storage/owncloud.js), together with the DELETE /api/files/delete   *)
(* handler that can remove an object while a stream request is in flight,  *)
(* and POST /api/upload with the watermark pipeline it calls (processImage, *)
(* processVideo, getOrgLogoBuffer, createRoundedLogo, cleanup).             *)
(*                                                                         *)
(* Strings that the code parses or formats are sequences of one-character  *)
(* tokens (the literal "bytes=" and "NaN" are single tokens); JavaScript   *)
(* numbers are records [nan, v] so that NaN arithmetic is explicit.        *)
(***************************************************************************)
EXTENDS Integers, Sequences, FiniteSets, TLC

\* ------------------------------------------------------------------ bounds
\* Largest object size held by the model store.
MaxSize == 3

\* Largest byte position a client writes in a Range header (one past the
\* largest size, so that out-of-bound starts and ends occur).
MaxPos == MaxSize + 1

Bytes == {0, 1}

\* --------------------------------------------------------- JavaScript values
NaN == [nan |-> TRUE, v |-> 0]
Num(n) == [nan |-> FALSE, v |-> n]

\* (a - b) on JavaScript numbers
JsSub(a, b) == IF a.nan \/ b.nan THEN NaN ELSE Num(a.v - b.v)

\* (a + b) on JavaScript numbers
JsAdd(a, b) == IF a.nan \/ b.nan THEN NaN ELSE Num(a.v + b.v)

Digits == {"0", "1", "2", "3", "4", "5", "6", "7", "8", "9"}

DigitVal == ("0" :> 0) @@ ("1" :> 1) @@ ("2" :> 2) @@ ("3" :> 3) @@ ("4" :> 4)
            @@ ("5" :> 5) @@ ("6" :> 6) @@ ("7" :> 7) @@ ("8" :> 8) @@ ("9" :> 9)

DigitChar == <<"0", "1", "2", "3", "4", "5", "6", "7", "8", "9">>

\* Value of the longest run of leading decimal digits of s, accumulated
\* left to right; acc is the value read so far.
RECURSIVE LeadingDigits(_, _)
LeadingDigits(s, acc) ==
    IF s # <<>> /\ Head(s) \in Digits
    THEN LeadingDigits(Tail(s), acc * 10 + DigitVal[Head(s)])
    ELSE acc

\* parseInt(s, 10) for the strings a split on "-" can yield (no sign):
\* NaN unless s starts with a digit.
ParseInt(s) ==
    IF s # <<>> /\ Head(s) \in Digits THEN Num(LeadingDigits(s, 0)) ELSE NaN

\* Decimal digits of a natural number.
RECURSIVE NatToStr(_)
NatToStr(n) ==
    IF n < 10 THEN <<DigitChar[n + 1]>>
    ELSE NatToStr(n \div 10) \o <<DigitChar[(n % 10) + 1]>>

\* `${x}` for a JavaScript number x.
NumToStr(x) ==
    IF x.nan THEN <<"NaN">>
    ELSE IF x.v < 0 THEN <<"-">> \o NatToStr(-x.v)
    ELSE NatToStr(x.v)

\* s.replace(/bytes=/, ""): drops the first occurrence of the token.
RECURSIVE ReplaceBytes(_)
ReplaceBytes(s) ==
    IF s = <<>> THEN <<>>
    ELSE IF Head(s) = "bytes=" THEN Tail(s)
    ELSE <<Head(s)>> \o ReplaceBytes(Tail(s))

\* s.split("-"): cur is the piece being read.
RECURSIVE SplitDash(_, _)
SplitDash(s, cur) ==
    IF s = <<>> THEN <<cur>>
    ELSE IF Head(s) = "-" THEN <<cur>> \o SplitDash(Tail(s), <<>>)
    ELSE SplitDash(Tail(s), Append(cur, Head(s)))

\* Truthiness of parts[i] (0-based i): an index past the end is undefined,
\* an empty string is falsy.
Truthy(parts, i) == i + 1 <= Len(parts) /\ parts[i + 1] # <<>>

\* ------------------------------------------------------------ request inputs
\* req.query.path as the pieces between dots; <<>> stands for undefined and
\* <<"">> for the empty string.
Undefined == <<>>
EmptyStr == <<"">>

FilePath == <<"/organizations/acme/videos/a", "mp4">>
MissingPath == <<"/organizations/acme/images/none", "PNG">>

StorePaths == {FilePath, MissingPath}
PathInputs == {Undefined, EmptyStr} \cup StorePaths

\* Mutant of Falsy: only a missing parameter is rejected, not an empty one.
FalsyUndefinedOnly(p) == p = Undefined

\* !path
Falsy(p) == p = Undefined \/ p = EmptyStr

NoRange == [present |-> FALSE, value |-> <<>>]
RangeOf(s) == [present |-> TRUE, value |-> s]

Pos == 0 .. MaxPos
PosStr(n) == NatToStr(n)

\* Range headers with two comma-separated ranges, the first one closed or
\* open-ended.
MultiRangeValues ==
    {<<"bytes=">> \o PosStr(s) \o <<"-">> \o e \o <<",", "2", "-", "3">> :
        s \in {0, 1}, e \in {<<>>, <<"1">>}}

\* Range header values a client sends.
RangeValues ==
    {<<"bytes=">> \o PosStr(s) \o <<"-">> \o PosStr(e) : s \in Pos, e \in Pos}
    \cup {<<"bytes=">> \o PosStr(s) \o <<"-">> : s \in Pos}
    \cup {<<"bytes=", "-">> \o PosStr(e) : e \in Pos}
    \cup {<<"bytes=", "x", "-">> \o PosStr(e) : e \in Pos}
    \cup {<<"bytes=">> \o PosStr(s) \o <<"-", "x">> : s \in Pos}
    \cup {<<>>, <<"x">>}
    \cup MultiRangeValues

RangeInputs == {NoRange} \cup {RangeOf(s) : s \in RangeValues}

\* `if (range)`: an absent header and an empty one are both falsy.
HasRange(r) == r.present /\ r.value # <<>>

\* ------------------------------------------------------------- remote store
\* An object of the store: its bytes, or nothing at that path.
Absent == [exists |-> FALSE, data |-> <<>>]
Object(d) == [exists |-> TRUE, data |-> d]

Contents == UNION {[1 .. n -> Bytes] : n \in 0 .. MaxSize}

\* Errors a store call fails with: status is error.status and respStatus is
\* error.response.status (0 where the property is undefined).
NoErr == [status |-> 0, respStatus |-> 0, message |-> ""]
NotFoundErr == [status |-> 404, respStatus |-> 404, message |-> "Not Found"]
RangeErr == [status |-> 416, respStatus |-> 416, message |-> "Range Not Satisfiable"]
ServerErr == [status |-> 500, respStatus |-> 500, message |-> "Internal Server Error"]
TransportErr == [status |-> 0, respStatus |-> 0, message |-> "ECONNRESET"]

\* Failures of the connection or of the backend, possible at any call.
StoreFailures == {ServerErr, TransportErr}

AllDigits(s) == s # <<>> /\ \A i \in 1 .. Len(s) : s[i] \in Digits

Min(a, b) == IF a <= b THEN a ELSE b

\* The store's answer to a read of `data` under the forwarded Range header:
\* a syntactically invalid header or one with last < first is ignored (the
\* whole object is sent), a first position past the end is unsatisfiable,
\* otherwise the window is cut at the last byte of the object.
UpstreamRead(range, data) ==
    LET full == [kind |-> "full", bytes |-> data]
        v == range.value
        parts == IF HasRange(range) /\ Head(v) = "bytes="
                 THEN SplitDash(Tail(v), <<>>) ELSE <<>>
    IN  IF Len(parts) # 2 \/ ~AllDigits(parts[1]) THEN full
        ELSE IF parts[2] # <<>> /\ ~AllDigits(parts[2]) THEN full
        ELSE LET first == LeadingDigits(parts[1], 0)
                 last == IF parts[2] = <<>> THEN Len(data) - 1
                         ELSE Min(LeadingDigits(parts[2], 0), Len(data) - 1)
             IN  IF parts[2] # <<>> /\ LeadingDigits(parts[2], 0) < first THEN full
                 ELSE IF first >= Len(data)
                 THEN [kind |-> "unsatisfiable", bytes |-> <<>>]
                 ELSE [kind |-> "partial", bytes |-> SubSeq(data, first + 1, last + 1)]

\* ------------------------------------------------------------------- state
VARIABLES
    store,        \* remote store: path -> object or Absent
    pc,           \* position of the observed stream request
    req,          \* its inputs: [path, range]
    fileSize,     \* stat.size once stat has resolved (-1 before)
    res,          \* the HTTP response object of the request
    caught,       \* the error the catch block was entered with (NoErr: none)
    storeCalls,   \* store calls issued for the request, in order
    stream,       \* the store read stream of the request
    clock,        \* Date.now()
    fs,           \* local temporary directory: file name -> content
    logos,        \* extensions e for which the store holds logo<e> of the
                  \* observed scope (the tenant's folder, or /admin)
    media,        \* objects of the store that uploads write: path -> content
    up,           \* the upload requests: their handler and watermark job state
    wr            \* the logo-writing requests on the observed scope

svars == <<store, pc, req, fileSize, res, caught, storeCalls, stream>>

uvars == <<clock, fs, logos, media, up, wr>>

vars == <<store, pc, req, fileSize, res, caught, storeCalls, stream,
          clock, fs, logos, media, up, wr>>

NoHead == [ContentRange |-> <<>>, AcceptRanges |-> "", ContentLength |-> NaN,
           ContentType |-> ""]

\* A fresh response: status is the status line committed to the client (0:
\* none yet), head the header object given to writeHead, text the body of a
\* send, body the bytes piped in, headerWrites the number of status/header
\* writes attempted.
NewRes == [status |-> 0, head |-> NoHead, text |-> "", body |-> <<>>,
           headersSent |-> FALSE, headerWrites |-> 0, ended |-> FALSE]

NoStream == [st |-> "none", range |-> NoRange, data |-> <<>>, served |-> Absent,
             err |-> NoErr]

Call(op, p, r) == [op |-> op, path |-> p, range |-> r]

\* ------------------------------------------------------- handler fragments
\* ext.toLowerCase() on the extensions the inputs carry.
ToLower(x) ==
    CASE x = "PNG" -> "png"
      [] x = "JPG" -> "jpg"
      [] x = "JPEG" -> "jpeg"
      [] x = "GIF" -> "gif"
      [] x = "MP4" -> "mp4"
      [] x = "Mp4" -> "mp4"
      [] x = "MOV" -> "mov"
      [] x = "WEBM" -> "webm"
      [] x = "SVG" -> "svg"
      [] x = "TXT" -> "txt"
      [] x = "CONSTRUCTOR" -> "constructor"
      [] OTHER -> x

\* path.split('.').pop().toLowerCase()
ExtOf(p) == ToLower(p[Len(p)])

OctetStream == "application/octet-stream"

\* mimeTypes[ext] || 'application/octet-stream'.  mimeTypes is an object
\* literal: a key it does not define is looked up on Object.prototype, where
\* `constructor` and `__proto__` are found, and the header takes the text of
\* what is found.
MimeType(ext) ==
    CASE ext = "png" -> "image/png"
      [] ext = "jpg" -> "image/jpeg"
      [] ext = "jpeg" -> "image/jpeg"
      [] ext = "gif" -> "image/gif"
      [] ext = "mp4" -> "video/mp4"
      [] ext = "mov" -> "video/quicktime"
      [] ext = "webm" -> "video/webm"
      [] ext = "svg" -> "image/svg+xml"
      [] ext = "constructor" -> "function Object() { [native code] }"
      [] ext = "__proto__" -> "[object Object]"
      [] OTHER -> OctetStream

\* range.replace(/bytes=/, "").split("-")
RangeParts(value) == SplitDash(ReplaceBytes(value), <<>>)

\* parseInt(parts[0], 10)
RangeStart(value) == ParseInt(RangeParts(value)[1])

\* parts[1] ? parseInt(parts[1], 10) : fileSize - 1
RangeEnd(value, size) ==
    IF Truthy(RangeParts(value), 1)
    THEN ParseInt(RangeParts(value)[2])
    ELSE Num(size - 1)

\* Mutant of ChunkSize: the + 1 of the inclusive window is forgotten.
ChunkSizeExclusive(start, end) == JsSub(end, start)

\* (end - start) + 1
ChunkSize(start, end) == JsAdd(JsSub(end, start), Num(1))

\* `bytes ${start}-${end}/${fileSize}`
ContentRange(start, end, size) ==
    <<"bytes ">> \o NumToStr(start) \o <<"-">> \o NumToStr(end) \o <<"/">>
    \o NumToStr(Num(size))

\* headers: { 'Range': `bytes=${start}-${end}` }
UpstreamRange(start, end) ==
    RangeOf(<<"bytes=">> \o NumToStr(start) \o <<"-">> \o NumToStr(end))

\* Header object of the 206 response.
RangeHead(value, size, mime) ==
    [ContentRange |-> ContentRange(RangeStart(value), RangeEnd(value, size), size),
     AcceptRanges |-> "bytes",
     ContentLength |-> ChunkSize(RangeStart(value), RangeEnd(value, size)),
     ContentType |-> mime]

\* Mutant of FullHead: Content-Length is taken from the last byte position.
FullHeadLastPos(size, mime) ==
    [ContentRange |-> <<>>, AcceptRanges |-> "bytes", ContentLength |-> Num(size - 1),
     ContentType |-> mime]

\* Header object of the 200 response.
FullHead(size, mime) ==
    [ContentRange |-> <<>>, AcceptRanges |-> "bytes", ContentLength |-> Num(size),
     ContentType |-> mime]

\* error.status === 404 || (error.response && error.response.status === 404)
IsNotFound(e) == e.status = 404 \/ (e.respStatus # 0 /\ e.respStatus = 404)

\* res.writeHead(code, h)
WriteHead(r, code, h) ==
    [r EXCEPT !.status = code, !.head = h, !.headersSent = TRUE,
              !.headerWrites = @ + 1]

\* res.status(code).send(text): on a response whose headers are already sent
\* the header write is attempted and raises ERR_HTTP_HEADERS_SENT, leaving
\* the committed status and the body as they are.
Send(r, code, text) ==
    IF r.headersSent
    THEN [r EXCEPT !.headerWrites = @ + 1]
    ELSE [r EXCEPT !.status = code, !.text = text, !.headersSent = TRUE,
                   !.headerWrites = @ + 1, !.ended = TRUE]

\* res.end()
End(r) == [r EXCEPT !.ended = TRUE]

MissingPathText == "Missing path"
NotFoundText == "File not found"
FailedText == "Failed to stream file"

\* Mutant of Catch: every error is answered 500, without the not-found case.
CatchAlways500(r, e) == IF ~r.headersSent THEN Send(r, 500, FailedText) ELSE r

\* The catch block of the handler, entered with error e on response r.
Catch(r, e) ==
    IF IsNotFound(e) THEN Send(r, 404, NotFoundText)
    ELSE IF ~r.headersSent THEN Send(r, 500, FailedText)
    ELSE r

\* Where the handler stands after its catch block: a send on a response
\* already sent raises out of the handler; a response left open hangs.
CatchPc(r, e) ==
    IF IsNotFound(e) /\ r.headersSent THEN "crashed"
    ELSE IF Catch(r, e).ended THEN "done"
    ELSE "hung"

\* stream.on('error', ...): if (!res.headersSent) res.end()
OnStreamError(r) == IF ~r.headersSent THEN End(r) ELSE r

\* ------------------------------------------- watermark pipeline: values
\* Largest value of Date.now() (the clock starts at 0).
MaxClock == 1

Uploads == {"u1", "u2"}

\* Mutant of LogoExts: .jpg is tried before .png.
LogoExtsJpgFirst == <<".jpg", ".png", ".jpeg", ".svg", ".jfif", ".webp", ".gif">>

\* const extensions = ['.png', '.jpg', '.jpeg', '.svg', '.jfif', '.webp', '.gif']
LogoExts == <<".png", ".jpg", ".jpeg", ".svg", ".jfif", ".webp", ".gif">>

LogoExtSet == {LogoExts[i] : i \in 1 .. Len(LogoExts)}

\* const LOGO_SIZE = 50
LOGO_SIZE == 50

\* const PADDING = 20
PADDING == 20

\* Contents of files and buffers: form says what the bytes are, src whose
\* bytes they are, round whether createRoundedLogo has shaped them, size the
\* side of the square they were resized to (0: their own dimensions),
\* overlays the logos composited onto them, in order.
NoFile == [form |-> "none", src |-> "", round |-> FALSE, size |-> 0, overlays |-> <<>>]

\* The bytes client u uploads.
Media(u) == [form |-> "media", src |-> u, round |-> FALSE, size |-> 0, overlays |-> <<>>]

\* The text of a path, written where bytes were expected.
PathText(u) == [form |-> "text", src |-> u, round |-> FALSE, size |-> 0, overlays |-> <<>>]

\* assets/sigtrack-logo.svg
BrandAsset == [form |-> "svg", src |-> "brand", round |-> FALSE, size |-> 0, overlays |-> <<>>]

\* The bytes of the tenant's logo<ext> in the store.
TenantLogo(ext) == [form |-> "logo", src |-> ext, round |-> FALSE, size |-> 0, overlays |-> <<>>]

\* JavaScript values handed around: a Buffer with its bytes, or a string
\* holding a file name.
NoVal == [type |-> "none", c |-> NoFile, name |-> <<>>]
Buf(c) == [type |-> "buffer", c |-> c, name |-> <<>>]
Str(n) == [type |-> "string", c |-> NoFile, name |-> n]

\* `input-${Date.now()}.mp4` and the other scratch names of processVideo.
InputPath(t) == <<"input-">> \o NatToStr(t) \o <<".mp4">>
OutputPath(t) == <<"output-">> \o NatToStr(t) \o <<".mp4">>
SigtrackLogoPath(t) == <<"sigtrack-">> \o NatToStr(t) \o <<".png">>
OrgLogoPath(t) == <<"org-">> \o NatToStr(t) \o <<".png">>

\* [inputPath, outputPath, sigtrackLogoPath, orgLogoPath]
ScratchPaths(t) == {InputPath(t), OutputPath(t), SigtrackLogoPath(t), OrgLogoPath(t)}

\* file.path: multer names the temporary file with a time and a random
\* suffix; the name is taken as unique to the request.
UploadFile(u) == <<"file-", u, ".tmp">>

FsNames == UNION {ScratchPaths(t) : t \in 0 .. MaxClock}
           \cup {UploadFile(u) : u \in Uploads}

\* fs.writeFileSync(name, val): a string is written as its text.
WriteFileSync(f, name, val) ==
    [f EXCEPT ![name] = IF val.type = "buffer" THEN val.c ELSE PathText(val.name[2])]

\* fs.unlinkSync(name) guarded by fs.existsSync(name); a Buffer holding media
\* bytes names no file.
UnlinkIfExists(f, val) ==
    IF val.type = "string" /\ val.name \in FsNames
    THEN [f EXCEPT ![val.name] = NoFile]
    ELSE f

\* Mutant of Cleanup: the tenant-logo raster is left out of the list.
CleanupWithoutOrgLogo(f, t) ==
    [n \in FsNames |-> IF n \in ScratchPaths(t) \ {OrgLogoPath(t)} THEN NoFile ELSE f[n]]

\* cleanup([inputPath, outputPath, sigtrackLogoPath, orgLogoPath])
Cleanup(f, t) ==
    [n \in FsNames |-> IF n \in ScratchPaths(t) THEN NoFile ELSE f[n]]

\* sharp(logo).toFile(path) with a path that ends in .png
ToFile(c) == [c EXCEPT !.form = "png"]

\* Mutant of CreateRoundedLogo: a failure of sharp yields nothing.
CreateRoundedLogoOrNothing(c, size, ok) ==
    IF ok THEN [c EXCEPT !.form = "png", !.round = TRUE, !.size = size] ELSE NoFile

\* createRoundedLogo(input, size, opacity): resize(size, size), the round
\* mask, png(); or the input itself when sharp fails.
CreateRoundedLogo(c, size, ok) ==
    IF ok THEN [c EXCEPT !.form = "png", !.round = TRUE, !.size = size] ELSE c

\* A logo as it lies on the picture: corner is the corner of the picture the
\* offsets x (horizontal) and y (vertical) are measured from.
Overlay(c, corner, x, y) ==
    [label |-> c.src, round |-> c.round, size |-> c.size,
     corner |-> corner, x |-> x, y |-> y]

\* let composite = [{ input: sigtrackLogo, gravity: 'northeast', top, left }];
\* if (orgLogo) composite.push({ input: orgLogo, gravity: 'northwest', top, left })
CompositeList(brand, tenant) ==
    <<[input |-> brand, gravity |-> "northeast", top |-> PADDING, left |-> PADDING]>>
    \o (IF tenant.form = "none" THEN <<>>
        ELSE <<[input |-> tenant, gravity |-> "northwest",
                top |-> PADDING, left |-> PADDING]>>)

\* Where sharp puts an entry of the list: an entry that carries both top and
\* left is put at that offset from the top-left corner of the picture, and
\* its gravity is not used.
SharpPlace(e) == Overlay(e.input, "northwest", e.left, e.top)

\* sharp(base).composite(list)
Composite(base, list) ==
    [base EXCEPT !.overlays = [i \in DOMAIN list |-> SharpPlace(list[i])]]

\* Mutant of Filter: the second overlay is not chained onto the first.
FilterUnchained(hasOrgLogo) ==
    <<"[0:v][1:v]overlay=", "main_w-overlay_w-">> \o NatToStr(PADDING)
    \o <<":">> \o NatToStr(PADDING)
    \o (IF hasOrgLogo
        THEN <<";[0:v][2:v]overlay=">> \o NatToStr(PADDING) \o <<":">> \o NatToStr(PADDING)
        ELSE <<>>)

\* filter += `[0:v][1:v]overlay=main_w-overlay_w-${PADDING}:${PADDING}`;
\* if (hasOrgLogo) filter += `[tmp];[tmp][2:v]overlay=${PADDING}:${PADDING}`
Filter(hasOrgLogo) ==
    <<"[0:v][1:v]overlay=", "main_w-overlay_w-">> \o NatToStr(PADDING)
    \o <<":">> \o NatToStr(PADDING)
    \o (IF hasOrgLogo
        THEN <<"[tmp];[tmp][2:v]overlay=">> \o NatToStr(PADDING)
             \o <<":">> \o NatToStr(PADDING)
        ELSE <<>>)

\* No encoder command has been built.
NoCmd == [inputs |-> <<>>, filter |-> <<>>, options |-> <<>>, output |-> <<>>]

\* ffmpeg(inputPath).input(sigtrackLogoPath)[.input(orgLogoPath)]
\*   .complexFilter(filter).outputOptions('-c:a copy').save(outputPath)
Command(t, hasOrgLogo) ==
    [inputs |-> <<InputPath(t), SigtrackLogoPath(t)>>
                \o (IF hasOrgLogo THEN <<OrgLogoPath(t)>> ELSE <<>>),
     filter |-> Filter(hasOrgLogo),
     options |-> <<"-c:a copy">>,
     output |-> OutputPath(t)]

\* The text of s after the first occurrence of the token tok (empty when
\* tok does not occur).
RECURSIVE After(_, _)
After(s, tok) ==
    IF s = <<>> THEN <<>>
    ELSE IF Head(s) = tok THEN Tail(s)
    ELSE After(Tail(s), tok)

\* The encoder's reading of the filter graph: the overlays it draws, in
\* order.  overlay=main_w-overlay_w-X:Y has its offsets from the top-right
\* corner, overlay=X:Y from the top-left corner; a second overlay is drawn
\* when the graph chains one onto [tmp].
FilterOverlays(filter, brand, tenant) ==
    LET first == After(filter, "main_w-overlay_w-")
        second == After(filter, "[tmp];[tmp][2:v]overlay=")
    IN  <<Overlay(brand, "northeast", LeadingDigits(first, 0),
                  LeadingDigits(After(first, ":"), 0))>>
        \o (IF second = <<>> THEN <<>>
            ELSE <<Overlay(tenant, "northwest", LeadingDigits(second, 0),
                           LeadingDigits(After(second, ":"), 0))>>)

\* req.file.mimetype as <<type and slash, subtype>>
Mimes == {<<"image/", "png">>, <<"video/", "mp4">>, <<"application/", "pdf">>}

\* mimeType.startsWith(prefix)
StartsWith(m, prefix) == m[1] = prefix

OriginalName == "clip.mp4"

OrgInputs == {"acme", "globex", ""}
FolderInputs == {"videos", "images", ""}

\* Mutant of RemotePath: the subfolder is left out of the path.
RemotePathNoFolder(org, folder, name) == <<"/organizations/", org, "/", name>>

\* `/organizations/${orgName}/${folder}/${file.originalname}`
RemotePath(org, folder, name) == <<"/organizations/", org, "/", folder, "/", name>>

MediaPaths == {RemotePath(o, f, OriginalName) : o \in OrgInputs \ {""}, f \in FolderInputs \ {""}}

\* An upload request that has not arrived: hasFile, org, folder and mime are
\* what it will carry.
IdleUp == [pc |-> "idle", variant |-> "", hasFile |-> FALSE, mime |-> <<>>,
           org |-> "", folder |-> "",
           kind |-> "", val |-> NoVal, t |-> 0, idx |-> 0, brand |-> NoFile,
           logo |-> NoFile, hasOrgLogo |-> FALSE, cmd |-> NoCmd,
           fault |-> "", via |-> "",
           result |-> NoVal, uploadPath |-> NoVal, remote |-> <<>>,
           stored |-> NoFile, status |-> 0, respPath |-> <<>>]

\* The two versions of the upload handler: index.js keeps the upload in a
\* temporary file (multer.diskStorage), the earlier one in memory.
Variants == {"disk", "buffer"}

\* -------------------------------------------------------------------- Init
Init ==
    /\ store \in {f \in [StorePaths -> {Absent} \cup {Object(d) : d \in Contents}] :
                    f[MissingPath] = Absent}
    /\ pc = "idle"
    /\ req = [path |-> Undefined, range |-> NoRange]
    /\ fileSize = -1
    /\ res = NewRes
    /\ caught = NoErr
    /\ storeCalls = <<>>
    /\ stream = NoStream
    \* no upload request, no local file, no uploaded object
    /\ clock = 0
    /\ fs = <<>>
    /\ logos = {}
    /\ wr = <<>>
    /\ media = <<>>
    /\ up = <<>>

\* ----------------------------------------------------------------- actions
\* GET /api/files/stream arrives: the handler runs up to `await stat`.  One
\* request is followed from its arrival: a later request starts with fresh
\* request state on a store that is one of the initial stores, so it passes
\* through the same states.
Receive ==
    /\ pc = "idle"
    /\ \E p \in {Undefined, EmptyStr} \cup DOMAIN store, r \in RangeInputs :
        /\ req' = [path |-> p, range |-> r]
        /\ IF Falsy(p)
           THEN /\ res' = Send(NewRes, 400, MissingPathText)
                /\ storeCalls' = <<>>
                /\ pc' = "done"
           ELSE /\ res' = NewRes
                /\ storeCalls' = <<Call("stat", p, NoRange)>>
                /\ pc' = "stat"
    /\ fileSize' = -1
    /\ caught' = NoErr
    /\ stream' = NoStream
    /\ UNCHANGED store
    /\ UNCHANGED uvars

\* owncloud.stat rejects: not found when the path holds nothing, or a
\* failure of the store; the catch block answers.
StatReject ==
    /\ pc = "stat"
    /\ \E e \in StoreFailures \cup {NotFoundErr} :
        /\ (e = NotFoundErr) => ~store[req.path].exists
        /\ caught' = e
        /\ res' = Catch(res, e)
        /\ pc' = CatchPc(res, e)
    /\ UNCHANGED <<store, req, fileSize, storeCalls, stream>>
    /\ UNCHANGED uvars

\* owncloud.stat resolves: headers are written and the read stream is
\* created; thrown is the error createReadStream raises, NoErr for none.
StatResolve ==
    /\ pc = "stat"
    /\ store[req.path].exists
    /\ \E thrown \in {NoErr, NotFoundErr, TransportErr} :
        LET size == Len(store[req.path].data)
            mime == MimeType(ExtOf(req.path))
            value == req.range.value
            ranged == HasRange(req.range)
            written == IF ranged
                       THEN WriteHead(res, 206, RangeHead(value, size, mime))
                       ELSE WriteHead(res, 200, FullHead(size, mime))
            fwd == IF ranged
                   THEN UpstreamRange(RangeStart(value), RangeEnd(value, size))
                   ELSE NoRange
        IN  /\ fileSize' = size
            /\ storeCalls' = Append(storeCalls, Call("read", req.path, fwd))
            /\ caught' = thrown
            /\ IF thrown = NoErr
               THEN /\ res' = written
                    /\ stream' = [NoStream EXCEPT !.st = "requested", !.range = fwd]
                    /\ pc' = "streaming"
               ELSE /\ res' = Catch(written, thrown)
                    /\ stream' = NoStream
                    /\ pc' = CatchPc(written, thrown)
    /\ UNCHANGED <<store, req>>
    /\ UNCHANGED uvars

\* The store answers the read: the bytes of the object as it is now, cut to
\* the forwarded window; a path that holds nothing (deleted since the stat)
\* or an unsatisfiable window makes the stream emit 'error'.
StreamOpen ==
    /\ pc = "streaming"
    /\ stream.st = "requested"
    /\ LET obj == store[req.path]
           ans == UpstreamRead(stream.range, obj.data)
           e == IF ~obj.exists THEN NotFoundErr
                ELSE IF ans.kind = "unsatisfiable" THEN RangeErr
                ELSE NoErr
       IN  IF e = NoErr
           THEN /\ stream' = [stream EXCEPT !.st = "open", !.data = ans.bytes,
                                            !.served = obj]
                /\ UNCHANGED <<res, pc>>
           ELSE /\ stream' = [stream EXCEPT !.st = "error", !.err = e]
                /\ res' = OnStreamError(res)
                /\ pc' = IF OnStreamError(res).ended THEN "done" ELSE "hung"
    /\ UNCHANGED <<store, req, fileSize, caught, storeCalls>>
    /\ UNCHANGED uvars

\* The connection to the store fails before or during the transfer: the
\* stream emits 'error' and the handler registered on it runs.
StreamFail ==
    /\ pc = "streaming"
    /\ stream.st \in {"requested", "open"}
    /\ \E e \in StoreFailures :
        stream' = [stream EXCEPT !.st = "error", !.err = e]
    /\ res' = OnStreamError(res)
    /\ pc' = IF OnStreamError(res).ended THEN "done" ELSE "hung"
    /\ UNCHANGED <<store, req, fileSize, caught, storeCalls>>
    /\ UNCHANGED uvars

\* stream.pipe(res): one chunk (here one byte) is written to the response.
PipeChunk ==
    /\ pc = "streaming"
    /\ stream.st = "open"
    /\ stream.data # <<>>
    /\ res' = [res EXCEPT !.body = Append(@, Head(stream.data))]
    /\ stream' = [stream EXCEPT !.data = Tail(@)]
    /\ UNCHANGED <<store, pc, req, fileSize, caught, storeCalls>>
    /\ UNCHANGED uvars

\* stream.pipe(res): the source ends and pipe ends the response.
StreamEnd ==
    /\ pc = "streaming"
    /\ stream.st = "open"
    /\ stream.data = <<>>
    /\ stream' = [stream EXCEPT !.st = "ended"]
    /\ res' = End(res)
    /\ pc' = "done"
    /\ UNCHANGED <<store, req, fileSize, caught, storeCalls>>
    /\ UNCHANGED uvars

\* The client disconnects while the body is being streamed: res emits
\* 'close' and the handler pipe registered on it unpipes the source. Nothing
\* in the handler listens for the disconnect, so the read stream is left as
\* it is.
ClientDisconnect ==
    /\ pc = "streaming"
    /\ pc' = "aborted"
    /\ UNCHANGED <<store, req, fileSize, res, caught, storeCalls, stream>>
    /\ UNCHANGED uvars

\* DELETE /api/files/delete by another client: 400 without a path, 404 when
\* nothing is there, otherwise the object is removed.
DeleteFile ==
    /\ \E p \in PathInputs :
        IF ~Falsy(p) /\ store[p].exists
        THEN store' = [store EXCEPT ![p] = Absent]
        ELSE UNCHANGED store
    /\ UNCHANGED <<pc, req, fileSize, res, caught, storeCalls, stream>>
    /\ UNCHANGED uvars

\* POST /api/upload by another client stores an object at a path that holds
\* one (putFileContents with overwrite, or the piped write stream).  Only an
\* overwrite between the answer to the stat of the observed request and the
\* store's answer to its read can show in the response: before the stat it is
\* one of the initial stores, after the read has been answered the response
\* no longer depends on the store.
Overwrite ==
    /\ pc = "streaming"
    /\ stream.st = "requested"
    /\ \E p \in DOMAIN store, d \in Contents :
        /\ store[p].exists
        /\ store[p].data # d
        /\ store' = [store EXCEPT ![p] = Object(d)]
    /\ UNCHANGED <<pc, req, fileSize, res, caught, storeCalls, stream>>
    /\ UNCHANGED uvars

Next ==
    \/ Receive
    \/ StatReject
    \/ StatResolve
    \/ StreamOpen
    \/ StreamFail
    \/ PipeChunk
    \/ StreamEnd
    \/ ClientDisconnect
    \/ DeleteFile
    \/ Overwrite

Spec == Init /\ [][Next]_vars

\* ------------------------------------------------ stream: content types
\* Last pieces of the paths requested: the extensions of the table in lower,
\* upper and mixed case, extensions outside it, the empty one of a path that
\* ends in a dot.
MimeExts ==
    {"png", "jpg", "jpeg", "gif", "mp4", "mov", "webm", "svg",
     "PNG", "JPG", "JPEG", "GIF", "MP4", "Mp4", "MOV", "WEBM", "SVG",
     "txt", "TXT", "pdf", "", "constructor", "CONSTRUCTOR", "__proto__"}

\* Paths with one dot, with two, and with none.
MimePaths ==
    {<<"/organizations/acme/images/a", e>> : e \in MimeExts}
    \cup {<<"/organizations/acme/images/a", d, e>> : d \in {"png", "txt"}, e \in {"png", "txt"}}
    \cup {<<"mp4">>, <<"/organizations/acme/videos/readme">>}

\* Every path holds a one-byte object.
InitMime ==
    /\ store = [p \in MimePaths |-> Object(<<0>>)]
    /\ pc = "idle"
    /\ req = [path |-> Undefined, range |-> NoRange]
    /\ fileSize = -1
    /\ res = NewRes
    /\ caught = NoErr
    /\ storeCalls = <<>>
    /\ stream = NoStream
    /\ clock = 0
    /\ fs = <<>>
    /\ logos = {}
    /\ wr = <<>>
    /\ media = <<>>
    /\ up = <<>>

NextMime ==
    \/ Receive
    \/ StatReject
    \/ StatResolve
    \/ StreamOpen
    \/ StreamFail
    \/ PipeChunk
    \/ StreamEnd
    \/ ClientDisconnect

SpecMime == InitMime /\ [][NextMime]_vars

\* ------------------------------------------------- upload: initial states
\* The server runs one version of the upload handler; the tenant has one of
\* a few sets of logo files in the store.
LogoSets == SUBSET LogoExtSet

\* The requests a client may send.
UploadInputs ==
    {[IdleUp EXCEPT !.hasFile = h, !.org = o, !.folder = f, !.mime = m] :
        h \in BOOLEAN, o \in OrgInputs, f \in FolderInputs, m \in Mimes}

\* A well-formed upload of a video.
VideoInput ==
    [IdleUp EXCEPT !.hasFile = TRUE, !.org = "acme", !.folder = "videos",
                   !.mime = <<"video/", "mp4">>]

InitUpload ==
    /\ store = [p \in StorePaths |-> Absent]
    /\ pc = "idle"
    /\ req = [path |-> Undefined, range |-> NoRange]
    /\ fileSize = 0
    /\ res = NewRes
    /\ caught = NoErr
    /\ storeCalls = <<>>
    /\ stream = NoStream
    /\ clock = 0
    /\ fs = [n \in FsNames |-> NoFile]
    /\ logos \in LogoSets
    /\ wr = <<>>
    /\ media = [p \in MediaPaths |-> NoFile]
    /\ \E v \in Variants, r \in UploadInputs :
          up = [u \in Uploads |-> [(IF u = "u1" THEN r ELSE IdleUp) EXCEPT !.variant = v]]

\* ------------------------------------------------------- upload: actions
\* The pipeline the declared content type selects.
KindOf(m) ==
    IF StartsWith(m, "image/") THEN "image"
    ELSE IF StartsWith(m, "video/") THEN "video"
    ELSE "other"

\* processVideo, catch (error): cleanup, return fileBuffer.
VideoCatch(u, step) ==
    /\ up' = [up EXCEPT ![u].pc = "store", ![u].result = up[u].val,
                        ![u].via = "setup", ![u].fault = step,
                        ![u].idx = 0, ![u].brand = NoFile, ![u].logo = NoFile]
    /\ fs' = Cleanup(fs, up[u].t)

\* Mutant of ImageCatch: the exception leaves processImage.
ImageCatchRethrow(u, step) ==
    /\ up' = [up EXCEPT ![u].pc = "store", ![u].result = NoVal,
                        ![u].via = "raised", ![u].fault = step,
                        ![u].idx = 0, ![u].brand = NoFile, ![u].logo = NoFile]
    /\ fs' = fs

\* processImage, catch (error): return fileBuffer.
ImageCatch(u, step) ==
    /\ up' = [up EXCEPT ![u].pc = "store", ![u].result = up[u].val,
                        ![u].via = "catch", ![u].fault = step,
                        ![u].idx = 0, ![u].brand = NoFile, ![u].logo = NoFile]
    /\ fs' = fs

\* An exception inside the try block of the running pipeline.
Throw(u, step) ==
    IF up[u].kind = "image" THEN ImageCatch(u, step) ELSE VideoCatch(u, step)

\* Date.now() moves on.  The clock is read only where a video job starts, so
\* its later values are left out once every request has arrived.
Tick ==
    /\ clock < MaxClock
    /\ \E u \in Uploads : up[u].pc = "idle"
    /\ clock' = clock + 1
    /\ UNCHANGED <<fs, logos, media, up, wr>>
    /\ UNCHANGED svars

\* POST /api/upload up to the first await of the selected pipeline.
Upload(u) ==
    /\ up[u].pc = "idle"
    /\ \E written \in BOOLEAN :
        LET disk == up[u].variant = "disk"
            hasFile == up[u].hasFile
            org == up[u].org
            folder == up[u].folder
            m == up[u].mime
            fs1 == IF disk /\ hasFile
                   THEN [fs EXCEPT ![UploadFile(u)] = Media(u)] ELSE fs
            val == IF disk /\ KindOf(m) = "video"
                   THEN Str(UploadFile(u)) ELSE Buf(Media(u))
            job == [up[u] EXCEPT !.kind = KindOf(m), !.val = val, !.t = clock]
        IN  IF ~hasFile \/ org = "" \/ folder = ""
            THEN /\ written
                 /\ up' = [up EXCEPT ![u].pc = "done", ![u].status = 400]
                 /\ fs' = fs1
            ELSE IF KindOf(m) = "other"
            THEN /\ written
                 /\ up' = [up EXCEPT ![u] = [job EXCEPT !.pc = "store", !.result = val,
                                                        !.via = "none"]]
                 /\ fs' = fs1
            ELSE IF KindOf(m) = "image"
            THEN /\ written
                 /\ up' = [up EXCEPT ![u] = [job EXCEPT !.pc = "brand"]]
                 /\ fs' = fs1
            ELSE IF written
            THEN /\ up' = [up EXCEPT ![u] = [job EXCEPT !.pc = "brand"]]
                 /\ fs' = WriteFileSync(fs1, InputPath(clock), val)
            ELSE /\ up' = [up EXCEPT ![u] = [job EXCEPT !.pc = "store", !.result = val,
                                                        !.via = "setup",
                                                        !.fault = "write"]]
                 /\ fs' = Cleanup(fs1, clock)
    /\ UNCHANGED <<clock, logos, wr, media>>
    /\ UNCHANGED svars

\* sigtrackLogo = await createRoundedLogo(SIGTRACK_LOGO_PATH, LOGO_SIZE, OPACITY)
BrandLogo(u) ==
    /\ up[u].pc = "brand"
    /\ \E ok \in BOOLEAN :
        up' = [up EXCEPT ![u].brand = CreateRoundedLogo(BrandAsset, LOGO_SIZE, ok),
                         ![u].fault = IF ok THEN @ ELSE "roundify",
                         ![u].idx = 1,
                         ![u].pc = IF up[u].kind = "video" THEN "brandfile" ELSE "resolve"]
    /\ UNCHANGED <<clock, fs, logos, wr, media>>
    /\ UNCHANGED svars

\* await sharp(sigtrackLogo).toFile(sigtrackLogoPath)
BrandToFile(u) ==
    /\ up[u].pc = "brandfile"
    /\ \E ok \in BOOLEAN :
        IF ok
        THEN /\ up' = [up EXCEPT ![u].pc = "resolve"]
             /\ fs' = [fs EXCEPT ![SigtrackLogoPath(up[u].t)] = ToFile(up[u].brand)]
        ELSE VideoCatch(u, "toFile")
    /\ UNCHANGED <<clock, logos, wr, media>>
    /\ UNCHANGED svars

\* getOrgLogoBuffer: await owncloud.exists(logoPath) for the next extension.
LogoExists(u) ==
    /\ up[u].pc = "resolve"
    /\ \E answered \in BOOLEAN :
        IF ~answered
        THEN Throw(u, "store")
        ELSE /\ fs' = fs
             /\ IF LogoExts[up[u].idx] \in logos
                THEN up' = [up EXCEPT ![u].pc = "read"]
                ELSE IF up[u].idx < Len(LogoExts)
                THEN up' = [up EXCEPT ![u].idx = @ + 1]
                ELSE IF up[u].kind = "video"
                THEN \* return null; hasOrgLogo stays false; new Promise(...)
                     up' = [up EXCEPT ![u].logo = NoFile,
                                      ![u].cmd = Command(up[u].t, FALSE),
                                      ![u].pc = "encode"]
                ELSE up' = [up EXCEPT ![u].logo = NoFile, ![u].pc = "composite"]
    /\ UNCHANGED <<clock, logos, wr, media>>
    /\ UNCHANGED svars

\* getOrgLogoBuffer: await owncloud.getFileContents(logoPath)
LogoContents(u) ==
    /\ up[u].pc = "read"
    /\ \E answered \in BOOLEAN :
        IF ~answered
        THEN Throw(u, "store")
        ELSE IF LogoExts[up[u].idx] \notin logos
        THEN \* the store answers 404: getFileContents rejects
             Throw(u, "notfound")
        ELSE /\ fs' = fs
             /\ up' = [up EXCEPT ![u].logo = TenantLogo(LogoExts[up[u].idx]),
                                 ![u].pc = "round"]
    /\ UNCHANGED <<clock, logos, wr, media>>
    /\ UNCHANGED svars

\* orgLogo = await createRoundedLogo(orgLogoBuffer, LOGO_SIZE, OPACITY)
OrgLogo(u) ==
    /\ up[u].pc = "round"
    /\ \E ok \in BOOLEAN :
        up' = [up EXCEPT ![u].logo = CreateRoundedLogo(@, LOGO_SIZE, ok),
                         ![u].fault = IF ok THEN @ ELSE "roundify",
                         ![u].pc = IF up[u].kind = "video" THEN "orgfile" ELSE "composite"]
    /\ UNCHANGED <<clock, fs, logos, wr, media>>
    /\ UNCHANGED svars

\* await sharp(orgLogo).toFile(orgLogoPath); hasOrgLogo = true;
\* new Promise(...)
OrgToFile(u) ==
    /\ up[u].pc = "orgfile"
    /\ \E ok \in BOOLEAN :
        IF ok
        THEN /\ up' = [up EXCEPT ![u].hasOrgLogo = TRUE,
                                 ![u].cmd = Command(up[u].t, TRUE),
                                 ![u].pc = "encode"]
             /\ fs' = [fs EXCEPT ![OrgLogoPath(up[u].t)] = ToFile(up[u].logo)]
        ELSE VideoCatch(u, "toFile")
    /\ UNCHANGED <<clock, logos, wr, media>>
    /\ UNCHANGED svars

\* await sharp(fileBuffer).composite(composite).toBuffer()
CompositeImage(u) ==
    /\ up[u].pc = "composite"
    /\ \E ok \in BOOLEAN :
        IF ok
        THEN /\ up' = [up EXCEPT ![u].result =
                                     Buf(Composite(up[u].val.c, CompositeList(up[u].brand, up[u].logo))),
                                 ![u].via = "returned", ![u].pc = "store",
                                 ![u].idx = 0, ![u].brand = NoFile, ![u].logo = NoFile]
             /\ fs' = fs
        ELSE ImageCatch(u, "composite")
    /\ UNCHANGED <<clock, logos, wr, media>>
    /\ UNCHANGED svars

\* What the encoder leaves at outputPath when it stops half-way.
PartialOutput == [form |-> "partial", src |-> "", round |-> FALSE, size |-> 0, overlays |-> <<>>]

\* The encoder started by .save(outputPath) runs the command on the files
\* that are at its input paths, and emits 'end' or 'error'.
Ffmpeg(u) ==
    /\ up[u].pc = "encode"
    /\ LET c == up[u].cmd
           input == fs[c.inputs[1]]
           brand == fs[c.inputs[2]]
           tenant == IF Len(c.inputs) >= 3 THEN fs[c.inputs[3]] ELSE NoFile
           overlays == FilterOverlays(c.filter, brand, tenant)
           readable == /\ input.form = "media"
                       /\ brand.form # "none"
                       /\ Len(c.inputs) >= 3 => tenant.form # "none"
                       /\ Len(overlays) <= Len(c.inputs) - 1
       IN  \E ok \in BOOLEAN, partial \in BOOLEAN :
             IF ok /\ readable
             THEN /\ ~partial
                  /\ fs' = [fs EXCEPT ![c.output] = [input EXCEPT !.overlays = overlays]]
                  /\ up' = [up EXCEPT ![u].pc = "end"]
             ELSE /\ fs' = IF partial THEN [fs EXCEPT ![c.output] = PartialOutput]
                          ELSE fs
                  /\ up' = [up EXCEPT ![u].pc = "error"]
    /\ UNCHANGED <<clock, logos, wr, media>>
    /\ UNCHANGED svars

\* .on('end'): readFileSync(outputPath), cleanup, resolve(outputBuffer).  When
\* readFileSync throws, the handler is left before cleanup and resolve: the
\* promise of the job stays pending.
OnEnd(u) ==
    /\ up[u].pc = "end"
    /\ \E readOk \in BOOLEAN :
        LET t == up[u].t
        IN  IF readOk /\ fs[OutputPath(t)].form # "none"
            THEN /\ up' = [up EXCEPT ![u].result = Buf(fs[OutputPath(t)]),
                                     ![u].via = "end", ![u].pc = "store",
                                 ![u].idx = 0, ![u].brand = NoFile, ![u].logo = NoFile]
                 /\ fs' = Cleanup(fs, t)
            ELSE /\ up' = [up EXCEPT ![u].via = "endthrow", ![u].fault = "read",
                                     ![u].pc = "pending"]
                 /\ fs' = fs
    /\ UNCHANGED <<clock, logos, wr, media>>
    /\ UNCHANGED svars

\* .on('error'): cleanup, resolve(fileBuffer).
OnError(u) ==
    /\ up[u].pc = "error"
    /\ up' = [up EXCEPT ![u].result = up[u].val, ![u].via = "error",
                        ![u].fault = "encoder", ![u].pc = "store",
                        ![u].idx = 0, ![u].brand = NoFile, ![u].logo = NoFile]
    /\ fs' = Cleanup(fs, up[u].t)
    /\ UNCHANGED <<clock, logos, wr, media>>
    /\ UNCHANGED svars

\* POST /api/upload after the pipeline has returned, up to the await of the
\* write to the store.
Continue(u) ==
    /\ up[u].pc = "store"
    /\ LET j == up[u]
           own == Str(UploadFile(u))
           remote == RemotePath(j.org, j.folder, OriginalName)
       IN  IF j.variant = "buffer"
           THEN \* await owncloud.putFileContents(path, buffer, { overwrite: true })
                /\ up' = [up EXCEPT ![u].remote = remote, ![u].pc = "writing"]
                /\ fs' = fs
           ELSE LET fs1 == IF j.kind = "image"
                           THEN WriteFileSync(fs, UploadFile(u), j.result)
                           ELSE IF j.kind = "video" /\ j.result # own
                           THEN UnlinkIfExists(fs, own)
                           ELSE fs
                    uploadPath == IF j.kind = "video" THEN j.result ELSE own
                IN  IF uploadPath.type = "string"
                    THEN \* fs.createReadStream(uploadPath).pipe(writeStream)
                         /\ up' = [up EXCEPT ![u].remote = remote,
                                             ![u].uploadPath = uploadPath,
                                             ![u].pc = "writing"]
                         /\ fs' = fs1
                    ELSE \* createReadStream throws on media bytes given as a path
                         /\ up' = [up EXCEPT ![u].remote = remote,
                                             ![u].uploadPath = uploadPath,
                                             ![u].status = 500, ![u].pc = "done"]
                         /\ fs' = fs1
    /\ UNCHANGED <<clock, logos, wr, media>>
    /\ UNCHANGED svars

\* The write to the store finishes or fails; the handler answers, and the
\* disk version deletes uploadPath.
UploadFinish(u) ==
    /\ up[u].pc = "writing"
    /\ \E ok \in BOOLEAN :
        LET j == up[u]
            body == IF j.variant = "buffer" THEN j.result.c ELSE fs[j.uploadPath.name]
        IN  /\ IF ok /\ body.form # "none"
               THEN /\ media' = [media EXCEPT ![j.remote] = body]
                    /\ up' = [up EXCEPT ![u].stored = body, ![u].status = 200,
                                        ![u].respPath = j.remote, ![u].pc = "done"]
               ELSE /\ media' = media
                    /\ up' = [up EXCEPT ![u].status = 500, ![u].pc = "done"]
            /\ fs' = IF j.variant = "disk" THEN UnlinkIfExists(fs, j.uploadPath) ELSE fs
    /\ UNCHANGED <<clock, logos, wr>>
    /\ UNCHANGED svars

\* One upload request, of any kind.
NextUpload ==
    \/ Tick
    \/ \E u \in {"u1"} :
        \/ Upload(u)
        \/ BrandLogo(u)
        \/ BrandToFile(u)
        \/ LogoExists(u)
        \/ LogoContents(u)
        \/ OrgLogo(u)
        \/ OrgToFile(u)
        \/ CompositeImage(u)
        \/ Ffmpeg(u)
        \/ OnEnd(u)
        \/ OnError(u)
        \/ Continue(u)
        \/ UploadFinish(u)

SpecUpload == InitUpload /\ [][NextUpload]_vars

\* Two video uploads at a time, with the scratch space they share.
InitJobs ==
    /\ store = [p \in StorePaths |-> Absent]
    /\ pc = "idle"
    /\ req = [path |-> Undefined, range |-> NoRange]
    /\ fileSize = 0
    /\ res = NewRes
    /\ caught = NoErr
    /\ storeCalls = <<>>
    /\ stream = NoStream
    /\ clock = 0
    /\ fs = [n \in FsNames |-> NoFile]
    /\ logos \in {{}, {".jpg"}}
    /\ wr = <<>>
    /\ media = [p \in MediaPaths |-> NoFile]
    /\ \E v \in Variants :
          up = [u \in Uploads |-> [VideoInput EXCEPT !.variant = v]]

NextJobs ==
    \/ Tick
    \/ \E u \in Uploads :
        \/ Upload(u)
        \/ BrandLogo(u)
        \/ BrandToFile(u)
        \/ LogoExists(u)
        \/ LogoContents(u)
        \/ OrgLogo(u)
        \/ OrgToFile(u)
        \/ Ffmpeg(u)
        \/ OnEnd(u)
        \/ OnError(u)
        \/ Continue(u)
        \/ UploadFinish(u)

SpecJobs == InitJobs /\ [][NextJobs]_vars

\* ------------------------------------------------- logo-writing requests
Writers == {"w1", "w2"}

\* The scopes that hold a logo: a tenant's folder and /admin.
Scopes == {"org", "admin"}

\* path.extname(logoFile.originalname) of the logo files that requests bring.
LogoUploads == {".png", ".jpg"}

\* A logo-writing request that has not arrived.
IdleWriter == [pc |-> "idle", scope |-> "org", kind |-> "", ext |-> "", idx |-> 0,
               before |-> {}, status |-> 0]

\* The requests that write a logo into a scope: POST /api/orgs/create and
\* POST /api/orgs/:orgName/update for a tenant, POST /api/admin/logo for /admin.
KindsOn(scope) == IF scope = "org" THEN {"create", "update"} ELSE {"admin"}

\* Mutant of FirstStep: the create request deletes the old logos first too.
FirstStepAlwaysCheck(kind) == "check"

\* Where a request with a logo begins its work on the logo files: create goes
\* straight to putFileContents, update and the admin upload first walk the
\* extensions.
FirstStep(kind) == IF kind = "create" THEN "put" ELSE "check"

\* The request arrives with a logo file; before is the set of logo files of
\* the scope at that moment.
WriterStart(w) ==
    /\ wr[w].pc = "idle"
    /\ \E kind \in KindsOn(wr[w].scope), ext \in LogoUploads :
        wr' = [wr EXCEPT ![w].kind = kind, ![w].ext = ext, ![w].before = logos,
                         ![w].idx = 1, ![w].pc = FirstStep(kind)]
    /\ UNCHANGED <<clock, fs, logos, media, up>>
    /\ UNCHANGED svars

\* The next step of the request after extension idx of the loop.
AfterExtension(w) ==
    IF wr[w].idx < Len(LogoExts)
    THEN [wr EXCEPT ![w].idx = @ + 1, ![w].pc = "check"]
    ELSE [wr EXCEPT ![w].pc = "put"]

\* catch (error): res.status(500)
WriterFail(w) == [wr EXCEPT ![w].pc = "done", ![w].status = 500]

\* if (await owncloud.exists(oldPath))
WriterExists(w) ==
    /\ wr[w].pc = "check"
    /\ \E answered \in BOOLEAN :
        wr' = IF ~answered THEN WriterFail(w)
              ELSE IF LogoExts[wr[w].idx] \in logos
              THEN [wr EXCEPT ![w].pc = "delete"]
              ELSE AfterExtension(w)
    /\ UNCHANGED <<clock, fs, logos, media, up>>
    /\ UNCHANGED svars

\* await owncloud.deleteFile(oldPath): rejects when the file is gone.
WriterDelete(w) ==
    /\ wr[w].pc = "delete"
    /\ \E answered \in BOOLEAN :
        IF answered /\ LogoExts[wr[w].idx] \in logos
        THEN /\ logos' = logos \ {LogoExts[wr[w].idx]}
             /\ wr' = AfterExtension(w)
        ELSE /\ logos' = logos
             /\ wr' = WriterFail(w)
    /\ UNCHANGED <<clock, fs, media, up>>
    /\ UNCHANGED svars

\* await owncloud.putFileContents(logoPath, buffer, { overwrite: true });
\* res.json({ success: true, ... })
WriterPut(w) ==
    /\ wr[w].pc = "put"
    /\ \E answered \in BOOLEAN :
        IF answered
        THEN /\ logos' = logos \cup {wr[w].ext}
             /\ wr' = [wr EXCEPT ![w].pc = "done", ![w].status = 200]
        ELSE /\ logos' = logos
             /\ wr' = WriterFail(w)
    /\ UNCHANGED <<clock, fs, media, up>>
    /\ UNCHANGED svars

\* Two logo-writing requests on one scope that holds at most one logo.
InitWriters ==
    /\ store = [p \in StorePaths |-> Absent]
    /\ pc = "idle"
    /\ req = [path |-> Undefined, range |-> NoRange]
    /\ fileSize = 0
    /\ res = NewRes
    /\ caught = NoErr
    /\ storeCalls = <<>>
    /\ stream = NoStream
    /\ clock = 0
    /\ fs = <<>>
    /\ logos \in {{}, {".png"}, {".jpg"}, {".gif"}}
    /\ media = <<>>
    /\ up = <<>>
    /\ \E scope \in Scopes :
          wr = [w \in Writers |-> [IdleWriter EXCEPT !.scope = scope]]

NextWriters ==
    \E w \in Writers :
        \/ WriterStart(w)
        \/ WriterExists(w)
        \/ WriterDelete(w)
        \/ WriterPut(w)

SpecWriters == InitWriters /\ [][NextWriters]_vars

\* A well-formed upload of an image.
ImageInput ==
    [IdleUp EXCEPT !.hasFile = TRUE, !.org = "acme", !.folder = "images",
                   !.mime = <<"image/", "png">>]

\* An image upload for a tenant beside one logo-writing request for the same
\* tenant.
InitRace ==
    /\ store = [p \in StorePaths |-> Absent]
    /\ pc = "idle"
    /\ req = [path |-> Undefined, range |-> NoRange]
    /\ fileSize = 0
    /\ res = NewRes
    /\ caught = NoErr
    /\ storeCalls = <<>>
    /\ stream = NoStream
    /\ clock = 0
    /\ fs = [n \in FsNames |-> NoFile]
    /\ logos \in {{}, {".png"}, {".jpg"}, {".gif"}}
    /\ media = [p \in MediaPaths |-> NoFile]
    /\ \E v \in Variants :
          up = [u \in Uploads |-> IF u = "u1" THEN [ImageInput EXCEPT !.variant = v]
                                  ELSE [IdleUp EXCEPT !.variant = v]]
    /\ wr = [w \in Writers |-> IdleWriter]

NextRace ==
    \/ \E w \in {"w1"} :
        \/ WriterStart(w)
        \/ WriterExists(w)
        \/ WriterDelete(w)
        \/ WriterPut(w)
    \/ \E u \in {"u1"} :
        \/ Upload(u)
        \/ BrandLogo(u)
        \/ LogoExists(u)
        \/ LogoContents(u)
        \/ OrgLogo(u)
        \/ CompositeImage(u)
        \/ Continue(u)
        \/ UploadFinish(u)

SpecRace == InitRace /\ [][NextRace]_vars

\* ------------------------------------------------------------------ claims
\* The header `bytes=<s>-<e>` and its open-ended form `bytes=<s>-`.
ClosedRange(s, e) == RangeOf(<<"bytes=">> \o NatToStr(s) \o <<"-">> \o NatToStr(e))
OpenRange(s) == RangeOf(<<"bytes=">> \o NatToStr(s) \o <<"-">>)

\* The Content-Range text `bytes <s>-<e>/<t>`.
ContentRangeText(s, e, t) ==
    <<"bytes ">> \o NatToStr(s) \o <<"-">> \o NatToStr(e) \o <<"/">> \o NatToStr(t)

\* The request carries a path parameter that is not the empty string.
PathGiven == req.path \notin {Undefined, EmptyStr}

\* stat has resolved for the request, so the status line has been written.
StatResolved == fileSize >= 0

\* The read call the request issued, if any.
ReadCalls == {i \in 1 .. Len(storeCalls) : storeCalls[i].op = "read"}

\* The transfer ran to its end on an object of the size stat reported.
Delivered == stream.st = "ended" /\ Len(stream.served.data) = fileSize

\* C1: a Range header bytes=<s>-<e> with 0 <= s <= e <= T-1 (or bytes=<s>-,
\* where e is T-1) on an object of size T is answered 206 with Content-Range
\* `bytes s-e/T`, Content-Length e-s+1 and Accept-Ranges bytes; the read
\* forwarded to the store carries the same window, and a transfer that runs
\* to its end delivers exactly the object's bytes s..e.
C1_ValidRangeIs206 ==
    \A s \in Pos, e \in Pos :
        (/\ StatResolved
         /\ s <= e /\ e <= fileSize - 1
         /\ \/ req.range = ClosedRange(s, e)
            \/ req.range = OpenRange(s) /\ e = fileSize - 1)
        => /\ res.status = 206
           /\ res.head.ContentRange = ContentRangeText(s, e, fileSize)
           /\ res.head.ContentLength = Num(e - s + 1)
           /\ res.head.AcceptRanges = "bytes"
           /\ \A i \in ReadCalls : storeCalls[i].range = ClosedRange(s, e)
           /\ ReadCalls # {}
           /\ Delivered => res.body = SubSeq(stream.served.data, s + 1, e + 1)

\* C1 witness: an inner window of a three-byte object was streamed to its end.
C1_Witness ==
    /\ pc = "done"
    /\ req.range = ClosedRange(1, 1)
    /\ fileSize = 3
    /\ res.status = 206
    /\ Delivered
    /\ res.body = <<stream.served.data[2]>>
    /\ stream.served.data[1] # stream.served.data[2]

\* C2: without a Range header an existing object of size T is answered 200
\* with Content-Length T and Accept-Ranges bytes, the store read is unranged,
\* and a transfer that runs to its end delivers the whole object.
C2_NoRangeIs200 ==
    (StatResolved /\ ~req.range.present)
    => /\ res.status = 200
       /\ res.head.ContentLength = Num(fileSize)
       /\ res.head.AcceptRanges = "bytes"
       /\ res.head.ContentRange = <<>>
       /\ ReadCalls # {}
       /\ \A i \in ReadCalls : storeCalls[i].range = NoRange
       /\ Delivered => res.body = stream.served.data

\* C2 witness: a whole two-byte object was streamed to its end.
C2_Witness ==
    /\ pc = "done"
    /\ ~req.range.present
    /\ res.status = 200
    /\ Delivered
    /\ fileSize = 2
    /\ res.body = <<0, 1>>

\* C3: whatever Range header was sent, the window a 206 response declares in
\* Content-Range lies inside the object: 0 <= start <= end <= T-1.
C3_DeclaredWindowInObject ==
    res.status = 206
    => \E s \in 0 .. fileSize - 1, e \in 0 .. fileSize - 1 :
          s <= e /\ res.head.ContentRange = ContentRangeText(s, e, fileSize)

\* Range headers whose start or end is not a number: bytes=x-<e>, bytes=<s>-x,
\* bytes=-<e> (empty start) and a bare word.
UnparseableRanges ==
    {RangeOf(<<"bytes=", "x", "-">> \o NatToStr(e)) : e \in Pos}
    \cup {RangeOf(<<"bytes=">> \o NatToStr(s) \o <<"-", "x">>) : s \in Pos}
    \cup {RangeOf(<<"bytes=", "-">> \o NatToStr(e)) : e \in Pos}
    \cup {RangeOf(<<"x">>)}

\* C4: a request whose Range header is present but unparseable is answered
\* 400 and no store call (stat or read) is made for it (stated here for the
\* runs in which no store call fails).
C4_UnparseableRangeIs400 ==
    (/\ pc \in {"streaming", "done", "hung", "crashed"}
     /\ PathGiven
     /\ req.range \in UnparseableRanges
     /\ caught = NoErr /\ stream.err = NoErr)
    => res.status = 400 /\ storeCalls = <<>>

\* C5: a requested end beyond T-1 is clamped to T-1 in Content-Range, in
\* Content-Length (T - start) and in the window forwarded to the store.
C5_EndClampedToLastByte ==
    \A s \in Pos, e \in Pos :
        (/\ StatResolved
         /\ s <= fileSize - 1 /\ e > fileSize - 1
         /\ req.range = ClosedRange(s, e))
        => /\ res.head.ContentRange = ContentRangeText(s, fileSize - 1, fileSize)
           /\ res.head.ContentLength = Num(fileSize - s)
           /\ \A i \in ReadCalls : storeCalls[i].range = ClosedRange(s, fileSize - 1)

\* C6: a request with a missing or empty path parameter is answered 400 and
\* issues no store call at all.
C6_MissingPathIs400 ==
    (pc # "idle" /\ ~PathGiven)
    => /\ pc = "done"
       /\ res.status = 400
       /\ res.text = MissingPathText
       /\ res.ended
       /\ storeCalls = <<>>

\* C6 witness: a request with an empty path was answered.
C6_Witness ==
    pc = "done" /\ req.path = EmptyStr /\ res.status = 400 /\ storeCalls = <<>>

WriteOps == {"createWriteStream", "putFileContents", "deleteFile", "move",
             "createDirectory"}

\* C7: when the store finds nothing at the requested path (stat is answered
\* not-found), the response is 404, the path still holds nothing, and the
\* request has issued no write-type store call.
C7_MissingObjectIs404 ==
    (/\ pc \in {"done", "hung", "crashed"}
     /\ PathGiven
     /\ ~StatResolved
     /\ caught \notin StoreFailures)
    => /\ res.status = 404
       /\ res.text = NotFoundText
       /\ res.ended
       /\ res.headerWrites = 1
       /\ ~store[req.path].exists
       /\ \A i \in 1 .. Len(storeCalls) : storeCalls[i].op \notin WriteOps
       /\ Len(storeCalls) = 1 /\ storeCalls[1].op = "stat"

\* C7 witness: a path that holds nothing was requested and answered 404.
C7_Witness ==
    /\ pc = "done"
    /\ req.path = MissingPath
    /\ caught = NotFoundErr
    /\ res.status = 404

\* The store failure the request met: the error stat rejected with, or the
\* error the read stream emitted (NoErr: none).
StoreFailure == IF caught # NoErr THEN caught ELSE stream.err

\* C8: a store failure (stat, or read reported on the stream) classified as
\* not-found yields 404; any other store failure yields 500 with the fixed
\* generic text, which is not the error's own message.
C8_StoreFailureStatus ==
    (/\ pc \in {"done", "hung"}
     /\ StoreFailure # NoErr
     /\ StatResolved => caught = NoErr)
    => IF IsNotFound(StoreFailure)
       THEN res.status = 404
       ELSE /\ res.status = 500
            /\ res.text = FailedText
            /\ res.text # StoreFailure.message

\* C9: once the read stream has emitted an error after the headers were
\* sent and its error handler has returned, the response has been ended.
C9_StreamErrorEndsResponse ==
    (stream.st = "error" /\ res.headersSent) => res.ended

\* C10: status and headers are written at most once per request.
C10_HeadersWrittenOnce == res.headerWrites <= 1

\* C11: once the client has disconnected in mid-stream, the read stream of
\* the request has been released (destroyed or closed), and the request has
\* issued a single store read.
C11_DisconnectReleasesStream ==
    pc = "aborted"
    => /\ stream.st \in {"destroyed", "closed", "ended"}
       /\ Cardinality(ReadCalls) = 1

\* ------------------------------------------------- claims on the uploads
\* The pipeline of upload u has returned to the handler, or has been left
\* with its promise pending.
Returned(u) == up[u].via # ""

\* The bytes client u sent.
Original(u) == [form |-> "media", src |-> u, round |-> FALSE, size |-> 0, overlays |-> <<>>]

\* What the pipeline was given for upload u: the bytes, or in the disk
\* version of the video branch the name of the temporary file that holds them.
GivenInput(u) ==
    IF up[u].variant = "disk" /\ up[u].mime[1] = "video/"
    THEN [type |-> "string", c |-> NoFile, name |-> <<"file-", u, ".tmp">>]
    ELSE [type |-> "buffer", c |-> Original(u), name |-> <<>>]

\* C12 (as stated): processImage has returned and some step of it failed
\* (roundify, a store call of the logo resolution, the composite) implies that
\* it returned the original bytes.
C12_AnyFailureReturnsOriginal ==
    \A u \in Uploads :
        (up[u].kind = "image" /\ Returned(u) /\ up[u].fault # "")
        => up[u].result = GivenInput(u)

\* C12 (amended): processImage never raises, it returns a buffer; when a step
\* raised an exception (a store call of the logo resolution, the composite) it
\* returns the original bytes.  A failure of roundify raises nothing:
\* createRoundedLogo hands back its input and the composite goes on with it.
C12_ExceptionReturnsOriginal ==
    \A u \in Uploads :
        (up[u].kind = "image" /\ Returned(u))
        => /\ up[u].via \in {"returned", "catch"}
           /\ up[u].result.type = "buffer"
           /\ up[u].fault \in {"store", "composite"} => up[u].result = GivenInput(u)
           /\ up[u].via = "catch" => up[u].result = GivenInput(u)

C12_Witness ==
    \E u \in Uploads :
        /\ up[u].kind = "image"
        /\ up[u].via = "catch"
        /\ up[u].fault = "store"
        /\ up[u].result = GivenInput(u)

\* The scratch paths of the job started at clock value t.
ScratchOf(t) ==
    {<<pre>> \o NatToStr(t) \o <<".mp4">> : pre \in {"input-", "output-"}}
    \cup {<<pre>> \o NatToStr(t) \o <<".png">> : pre \in {"sigtrack-", "org-"}}

\* C13: the step that handles the encoder's 'error' event resolves the job
\* with the original input, leaves no file at any scratch path of the job, and
\* leaves every other local file as it was.
C13_EncoderErrorCleansUp ==
    [][\A u \in Uploads :
         (up[u].pc = "error" /\ up'[u].pc # "error")
         => /\ up'[u].pc = "store"
            /\ up'[u].result = GivenInput(u)
            /\ \A n \in FsNames :
                 fs'[n] = IF n \in ScratchOf(up[u].t) THEN NoFile ELSE fs[n]]_vars

C13_Witness ==
    \E u \in Uploads :
        /\ up[u].via = "error"
        /\ up[u].hasOrgLogo
        /\ up[u].result = GivenInput(u)
        /\ \A n \in ScratchOf(up[u].t) : fs[n] = NoFile

\* No other upload has started a video job on the same clock value.
Alone(u) ==
    \A v \in Uploads \ {u} : up[v].kind # "video" \/ up[v].t # up[u].t

\* C14: once a video job has finished, on whichever path (encoder success,
\* encoder error, exception during setup, failure to read the output in the
\* success handler), no scratch file of the job is left.
C14_NoScratchFileRemains ==
    \A u \in Uploads :
        (up[u].kind = "video" /\ Returned(u) /\ Alone(u))
        => \A n \in ScratchOf(up[u].t) : fs[n] = NoFile

\* C15: the step that handles the encoder's 'end' or 'error' event resolves
\* the job, and resolves it with the original input unless the output was read.
C15_EncoderEventResolvesJob ==
    [][\A u \in Uploads :
         (up[u].pc \in {"end", "error"} /\ up'[u].pc # up[u].pc)
         => /\ up'[u].pc = "store"
            /\ up'[u].via # "end" => up'[u].result = GivenInput(u)]_vars

\* A video job of upload u is between its start and its resolution.
InFlight(u) ==
    /\ up[u].kind = "video"
    /\ up[u].pc \in {"brand", "brandfile", "resolve", "read", "round", "orgfile",
                     "encode", "end", "error"}

\* C16: two video jobs in flight at the same time have disjoint sets of
\* scratch paths.
C16_ScratchPathsDisjoint ==
    \A u, v \in Uploads :
        (u # v /\ InFlight(u) /\ InFlight(v))
        => ScratchOf(up[u].t) \cap ScratchOf(up[v].t) = {}

\* C17: until its encoder has run, the input copy of a video job holds what
\* the job wrote there, and the output a job resolves with is made from its
\* own input.
C17_JobsDoNotInterfere ==
    \A u \in Uploads :
        /\ (up[u].kind = "video" /\ up[u].pc \in {"brand", "brandfile", "resolve", "read",
                                                   "round", "orgfile", "encode"})
           => fs[<<"input-">> \o NatToStr(up[u].t) \o <<".mp4">>].src = u
        /\ (up[u].kind = "video" /\ up[u].via = "end") => up[u].result.c.src = u

\* C18: an upload whose watermark pipeline failed goes on to the write to the
\* store, and when it is answered with success the stored object is the
\* original upload.
C18_WatermarkFailureStoresOriginal ==
    \A u \in Uploads :
        up[u].via \in {"catch", "setup", "error", "endthrow"}
        => /\ up[u].pc \in {"store", "writing", "done"}
           /\ (up[u].pc = "done" /\ up[u].status = 200) => up[u].stored = Original(u)

\* `/organizations/<orgName>/<folder>/<originalname>` for the request of u.
ExpectedPath(u) == <<"/organizations/", up[u].org, "/", up[u].folder, "/", "clip.mp4">>

\* C19: the step that answers an upload with success has written the object
\* at /organizations/<orgName>/<folder>/<originalname> and nowhere else, the
\* response carries that path, and the pipeline that ran is the one the
\* declared content type selects (none for a type that is neither image nor
\* video: the original bytes are stored).
C19_PipelineByTypeAndExactPath ==
    [][\A u \in Uploads :
         (up[u].pc = "writing" /\ up'[u].pc = "done" /\ up'[u].status = 200)
         => /\ up'[u].respPath = ExpectedPath(u)
            /\ media'[ExpectedPath(u)] = up'[u].stored
            /\ \A p \in DOMAIN media \ {ExpectedPath(u)} : media'[p] = media[p]
            /\ up[u].mime[1] = "image/" => up[u].via \in {"returned", "catch"}
            /\ up[u].mime[1] = "video/" => up[u].via \in {"setup", "error", "end"}
            /\ up[u].mime[1] \notin {"image/", "video/"}
               => up[u].via = "none" /\ up'[u].stored = Original(u)]_vars

C19_Witness ==
    \E u \in Uploads :
        /\ up[u].pc = "done"
        /\ up[u].status = 200
        /\ up[u].mime[1] = "video/"
        /\ up[u].via = "end"
        /\ up[u].folder = "images"
        /\ up[u].respPath = ExpectedPath(u)
        /\ media[ExpectedPath(u)] = up[u].stored

\* The order in which the extensions of a logo are tried.
FixedOrder == <<".png", ".jpg", ".jpeg", ".svg", ".jfif", ".webp", ".gif">>

\* The first extension of the fixed order for which the tenant has a logo.
FirstExisting ==
    FixedOrder[CHOOSE i \in 1 .. Len(FixedOrder) :
                  /\ FixedOrder[i] \in logos
                  /\ \A k \in 1 .. i - 1 : FixedOrder[k] \notin logos]

\* C20: the logo resolution returns the bytes of the logo with the first
\* extension of the fixed order among those that exist, and returns nothing
\* exactly when none exists; with logo.jpg and logo.png it returns logo.png.
C20_FirstExistingLogo ==
    \A u \in Uploads :
        /\ up[u].pc = "round"
           => /\ logos # {}
              /\ up[u].logo = [form |-> "logo", src |-> FirstExisting,
                               round |-> FALSE, size |-> 0, overlays |-> <<>>]
              /\ {".jpg", ".png"} \subseteq logos => up[u].logo.src = ".png"
        /\ up[u].pc \in {"composite", "orgfile", "encode"}
           => (up[u].logo.form = "none" <=> logos = {})

C20_Witness ==
    \E u \in Uploads :
        /\ up[u].pc = "round"
        /\ {".jpg", ".png"} \subseteq logos
        /\ up[u].logo.src = ".png"

\* ------------------------------------------- claims on the stream, continued
\* The tokens of a header value before its first comma.
RECURSIVE FirstRange(_)
FirstRange(v) ==
    IF v = <<>> \/ Head(v) = "," THEN <<>> ELSE <<Head(v)>> \o FirstRange(Tail(v))

\* The Range header of the request lists several ranges.
MultiRange == req.range.present /\ \E i \in 1 .. Len(req.range.value) : req.range.value[i] = ","

\* C26: a request whose Range header lists several ranges, the first of them
\* starting inside the object, is answered as a request carrying the first
\* range alone: same status, same Content-Range, Content-Length and other
\* headers, same window forwarded to the store.
C26_OnlyFirstRangeHonoured ==
    (/\ StatResolved
     /\ MultiRange
     /\ caught = NoErr
     /\ LeadingDigits(Tail(FirstRange(req.range.value)), 0) < fileSize)
    => LET first == FirstRange(req.range.value)
       IN  /\ res.status = 206
           /\ res.head = RangeHead(first, fileSize, res.head.ContentType)
           /\ \A i \in ReadCalls :
                storeCalls[i].range = UpstreamRange(RangeStart(first),
                                                    RangeEnd(first, fileSize))

\* C28: a response whose transfer ran to its end without a failure of the
\* store carries exactly as many body bytes as its Content-Length declares.
C28_ContentLengthIsBodyLength ==
    (/\ pc = "done"
     /\ stream.st = "ended"
     /\ ~req.range.present)
    => res.head.ContentLength = Num(Len(res.body))

\* The table of the content types, by extension in lower case.
MimeTable ==
    [e \in {"png", "jpg", "jpeg", "gif", "mp4", "mov", "webm", "svg"} |->
        CASE e = "png" -> "image/png"
          [] e \in {"jpg", "jpeg"} -> "image/jpeg"
          [] e = "gif" -> "image/gif"
          [] e = "mp4" -> "video/mp4"
          [] e = "mov" -> "video/quicktime"
          [] e = "webm" -> "video/webm"
          [] e = "svg" -> "image/svg+xml"]

\* C30: the Content-Type of a 200/206 response is the table's entry for the
\* last dot-separated extension of the path, compared without regard to case;
\* it is application/octet-stream for every other extension and for a path
\* without a dot.
C30_ContentTypeByExtension ==
    (StatResolved /\ caught = NoErr /\ res.status \in {200, 206})
    => LET ext == ToLower(req.path[Len(req.path)])
       IN  res.head.ContentType =
             IF Len(req.path) >= 2 /\ ext \in DOMAIN MimeTable
             THEN MimeTable[ext]
             ELSE "application/octet-stream"


\* C24: once POST /api/upload of index.js has answered (400, 500 or
\* success), neither the multer file of the request nor a processed output
\* file of its job is left in the temporary directory.
C24_NoTempFileAfterResponse ==
    \A u \in Uploads :
        (up[u].pc = "done" /\ up[u].variant = "disk")
        => /\ fs[UploadFile(u)] = NoFile
           /\ fs[OutputPath(up[u].t)] = NoFile


\* C23: a picture that processImage returns from its composite carries, for
\* a tenant without a logo, exactly one overlay, the brand logo at the
\* top-right corner with offsets (20, 20); for a tenant with a logo, the
\* brand logo there followed by the tenant logo at the top-left corner with
\* offsets (20, 20); both logos are 50 wide and high.
C23_ImageOverlays ==
    \A u \in Uploads :
        (up[u].kind = "image" /\ up[u].via = "returned" /\ up[u].fault # "roundify")
        => LET brandAt == [label |-> "brand", round |-> TRUE, size |-> 50,
                           corner |-> "northeast", x |-> 20, y |-> 20]
               tenantAt == [label |-> FirstExisting, round |-> TRUE, size |-> 50,
                            corner |-> "northwest", x |-> 20, y |-> 20]
           IN  up[u].result.c.overlays =
                   IF logos = {} THEN <<brandAt>> ELSE <<brandAt, tenantAt>>

\* The encoder command of a video job exists from the creation of the
\* promise to the encoder's event.
Encoding(u) == up[u].kind = "video" /\ up[u].pc \in {"encode", "end", "error"}

\* C27: the encoder command of a video job has the upload as input 0 and
\* the brand raster as input 1, overlaid at (main_w - overlay_w - 20, 20);
\* the tenant raster is input 2, with a second overlay at (20, 20) chained
\* onto the output of the first, exactly when a tenant logo was resolved;
\* the audio is copied in both cases.
C27_VideoFilterGraph ==
    \A u \in Uploads :
        Encoding(u)
        => LET c == up[u].cmd
               t == up[u].t
               resolved == up[u].logo.form # "none"
               first == <<"[0:v][1:v]overlay=", "main_w-overlay_w-", "2", "0", ":", "2", "0">>
               second == <<"[tmp];[tmp][2:v]overlay=", "2", "0", ":", "2", "0">>
           IN  /\ c.inputs[1] = <<"input-">> \o NatToStr(t) \o <<".mp4">>
               /\ c.inputs[2] = <<"sigtrack-">> \o NatToStr(t) \o <<".png">>
               /\ resolved => /\ Len(c.inputs) = 3
                              /\ c.inputs[3] = <<"org-">> \o NatToStr(t) \o <<".png">>
                              /\ c.filter = first \o second
               /\ ~resolved => /\ Len(c.inputs) = 2
                               /\ c.filter = first
               /\ c.options = <<"-c:a copy">>

C27_Witness ==
    \E u \in Uploads :
        /\ up[u].kind = "video"
        /\ up[u].pc = "end"
        /\ up[u].logo.form # "none"
        /\ Len(fs[up[u].cmd.output].overlays) = 2

\* C29: a call of createRoundedLogo does not raise: the caller goes on to
\* its next step, holding either the input unchanged (the call failed) or a
\* round PNG that is 50 wide and high, the size asked for.
C29_RoundifyNeverRaises ==
    [][\A u \in Uploads :
          LET Rounded(in) == [in EXCEPT !.form = "png", !.round = TRUE, !.size = 50]
          IN  /\ (up[u].pc = "brand" /\ up'[u] # up[u])
                 => /\ up'[u].pc \in {"brandfile", "resolve"}
                    /\ up'[u].brand \in {BrandAsset, Rounded(BrandAsset)}
              /\ (up[u].pc = "round" /\ up'[u] # up[u])
                 => /\ up'[u].pc \in {"orgfile", "composite"}
                    /\ up'[u].logo \in {up[u].logo, Rounded(up[u].logo)}]_vars

C29_Witness ==
    \E u \in Uploads :
        /\ up[u].pc = "composite"
        /\ up[u].fault = "roundify"
        /\ up[u].logo.form = "logo"
        /\ up[u].brand.round


\* --------------------------------------------------- claims on the logos
\* C21: when the logo file is gone by the time the resolver reads it (a
\* concurrent request deleted it after the existence check), the resolver
\* does not throw: it goes on to the next extension or returns nothing, and
\* the job goes on with it.
C21_NotFoundYieldsAbsent ==
    [][\A u \in Uploads :
          (/\ up[u].pc = "read"
           /\ LogoExts[up[u].idx] \notin logos
           /\ up'[u] # up[u]
           /\ up'[u].fault # "store")
          => /\ up'[u].pc \in {"resolve", "composite", "encode"}
             /\ up'[u].fault = up[u].fault]_vars

\* C22: a scope that held at most one logo file holds at most one after any
\* sequence and interleaving of logo-writing requests.
C22_AtMostOneLogo == Cardinality(logos) <= 1

\* The job of upload u went on without a tenant logo.
ResolvedAbsent(u) ==
    \/ up[u].pc = "composite" /\ up[u].logo.form = "none"
    \/ up[u].via = "returned" /\ Len(up[u].result.c.overlays) = 1

\* C25: an upload's watermark job that runs beside a logo replacement for
\* the same tenant can resolve the tenant logo as absent, and composite the
\* brand logo only, although the tenant had a logo before the replacement and
\* has one after it (C25_Witness is such a state).  It happens only that way:
\* the job of a tenant that had a logo finds none only beside an update, which
\* deletes before it writes, and never beside a create or with no
\* logo-writing request at all.
C25_AbsentOnlyBesideReplacement ==
    \A u \in Uploads :
        ResolvedAbsent(u)
        => /\ (\A w \in Writers : wr[w].pc = "idle") => logos = {}
           /\ \A w \in Writers :
                 (wr[w].pc # "idle" /\ wr[w].before # {}) => wr[w].kind = "update"

C25_Witness ==
    \E u \in Uploads, w \in Writers :
        /\ up[u].via = "returned"
        /\ Len(up[u].result.c.overlays) = 1
        /\ wr[w].kind = "update"
        /\ wr[w].pc = "done"
        /\ wr[w].status = 200
        /\ wr[w].before # {}
        /\ logos # {}

====
